---- MODULE Spec2Model ----
(***************************************************************************)
(* Model of stock_foreign_dashboard.py: the flat cell scan of              *)
(* fetch_fubon_ranking, the backward date walk of fetch_twse_foreign_data, *)
(* the two-horizon merge of main and merge_and_classify.                   *)
(*                                                                         *)
(* Texts are tuples of one-character strings, so that isdigit, int, the    *)
(* code regex and the date slicing are computed and not assumed.  Python   *)
(* indexes from 0, the sequences here from 1: the scan cursor i of the     *)
(* model is the code's i + 1.  None is the empty tuple None, a present     *)
(* optional value v is <<v>>.                                              *)
(***************************************************************************)
EXTENDS Integers, Sequences, FiniteSets, TLC

VARIABLES
    \* fetch_fubon_ranking
    all_tds, i, ext_stocks, spans, ext_pc,
    \* fetch_twse_foreign_data
    target_date, walk_i, requests, responses, foreign_map, actual_date, flow_pc,
    \* main
    stocks_5d, stocks_10d, five_day_map, ten_day_map, stocks,
    date_5d, date_10d, date_foreign, buying, selling, nodata, html, pc,
    \* the calls main has made so far, in order
    calls

extVars  == <<all_tds, i, ext_stocks, spans, ext_pc>>
flowVars == <<target_date, walk_i, requests, responses, actual_date, flow_pc>>
mainVars == <<stocks_5d, stocks_10d, five_day_map, ten_day_map, stocks,
              date_5d, date_10d, date_foreign, buying, selling, nodata, html, pc,
              calls>>
vars     == <<extVars, flowVars, foreign_map, mainVars>>

\* what each function leaves alone
OnlyExt  == UNCHANGED <<flowVars, foreign_map, mainVars>>
OnlyFlow == UNCHANGED <<extVars, mainVars>>

None == <<>>
Some(v) == <<v>>

----------------------------------------------------------------------------
(* Text helpers *)

DigitChars == <<"0", "1", "2", "3", "4", "5", "6", "7", "8", "9">>

UpperChars == {"A", "B", "C", "D", "E", "F", "G", "H", "I", "J", "K", "L", "M",
               "N", "O", "P", "Q", "R", "S", "T", "U", "V", "W", "X", "Y", "Z"}

IsDigitChar(c) == \E n \in 1..10 : DigitChars[n] = c

DigitVal(c) == (CHOOSE n \in 1..10 : DigitChars[n] = c) - 1

\* str.isdigit(): non-empty and every character a digit
isdigit(t) == Len(t) > 0 /\ \A k \in 1..Len(t) : IsDigitChar(t[k])

\* int(text) of a digit string
RECURSIVE int(_)
int(t) == IF t = <<>> THEN 0
          ELSE int(SubSeq(t, 1, Len(t) - 1)) * 10 + DigitVal(t[Len(t)])

\* text.replace(c, "") for every c of chars
Remove(t, chars) == SelectSeq(t, LAMBDA c : c \notin chars)

\* float(text), as a number of hundredths; texts with more than two decimals,
\* exponents, inf or nan are outside the texts the model feeds it
to_float(t) ==
    LET neg  == Len(t) > 0 /\ t[1] = "-"
        body == IF neg THEN Tail(t) ELSE t
        dots == {k \in 1..Len(body) : body[k] = "."}
        dot  == IF dots = {} THEN Len(body) + 1 ELSE CHOOSE k \in dots : TRUE
        ip   == SubSeq(body, 1, dot - 1)
        fp   == SubSeq(body, dot + 1, Len(body))
        ok   == /\ Cardinality(dots) <= 1
                /\ \A k \in 1..Len(ip) : IsDigitChar(ip[k])
                /\ \A k \in 1..Len(fp) : IsDigitChar(fp[k])
                /\ Len(ip) + Len(fp) > 0
                /\ Len(fp) <= 2
        mag  == int(ip) * 100 + (IF Len(fp) = 1 THEN int(fp) * 10 ELSE int(fp))
    IN  IF ~ok THEN 0 ELSE IF neg THEN 0 - mag ELSE mag

\* clean_num of fetch_fubon_ranking
clean_num(text) ==
    LET t == Remove(text, {",", " "})
    IN  IF t = <<>> \/ t = <<"-">> THEN 0 ELSE to_float(Remove(t, {"+"}))

----------------------------------------------------------------------------
(* fetch_fubon_ranking: the flat cell scan *)

MinValues == 6
MaxValues == 8

\* a rank marker: purely numeric, 1..999
IsRankMarker(text) == isdigit(text) /\ 1 <= int(text) /\ int(text) <= 999

\* length of the match of ^\d{4,6}[A-Z]? on raw, 0 when it does not match
MatchCode(raw) ==
    LET n == CHOOSE n \in 0..Len(raw) :
                 /\ \A k \in 1..n : IsDigitChar(raw[k])
                 /\ n = Len(raw) \/ ~IsDigitChar(raw[n + 1])
        m == IF n > 6 THEN 6 ELSE n
    IN  IF n < 4 THEN 0
        ELSE IF m < Len(raw) /\ raw[m + 1] \in UpperChars THEN m + 1 ELSE m

\* the group of Link2Stk('...') in the name cell's anchor, <<>> without one
LinkCode(td) ==
    IF td.a.kind = "Link2Stk" /\ td.a.arg # <<>> THEN td.a.arg ELSE <<>>

\* stock_code: from the link, else the leading code of the cell text
StockCode(td) ==
    IF LinkCode(td) # <<>> THEN LinkCode(td)
    ELSE SubSeq(td.text, 1, MatchCode(td.text))

\* stock_name: the cell text without its leading code and blanks
StockName(raw) ==
    LET rest == SubSeq(raw, MatchCode(raw) + 1, Len(raw))
        lead == CHOOSE n \in 0..Len(rest) :
                    /\ \A k \in 1..n : rest[k] = " "
                    /\ n = Len(rest) \/ rest[n + 1] # " "
    IN  SubSeq(rest, lead + 1, Len(rest))

\* the inner loop stops at the next rank marker once enough values are held
StopAtMarker(val, remaining) ==
    IsRankMarker(val) /\ Len(remaining) >= MinValues

\* the inner while loop from cell j on: the values collected and the final j
RECURSIVE CollectValues(_, _, _)
CollectValues(tds, j, remaining) ==
    IF ~(j <= Len(tds) /\ Len(remaining) < MaxValues)
    THEN [remaining |-> remaining, j |-> j]
    ELSE LET val == tds[j].text
         IN  IF StopAtMarker(val, remaining)
             THEN [remaining |-> remaining, j |-> j]
             ELSE IF val = <<>>
                  THEN CollectValues(tds, j + 1, remaining)
                  ELSE CollectValues(tds, j + 1, Append(remaining, val))

\* mutant: more than 6 values are asked for
EnoughValues_strict(remaining) == Len(remaining) > MinValues

\* a record is only built from at least 6 values
EnoughValues(remaining) == Len(remaining) >= MinValues

\* the record appended to stocks; the two horizon fields, which main sets to
\* None in some records, are held as optional values
MakeStock(rank, stock_code, stock_name, remaining) ==
    [rank            |-> rank,
     code            |-> stock_code,
     name            |-> stock_name,
     close           |-> clean_num(remaining[1]),
     change          |-> clean_num(remaining[2]),
     change_pct      |-> clean_num(Remove(remaining[3], {"%"})),
     volume          |-> clean_num(remaining[4]),
     five_day_change |-> Some(clean_num(remaining[5])),
     five_day_pct    |-> Some(clean_num(Remove(remaining[6], {"%"})))]

\* mutant: a record whose code is already held replaces the held one
AppendStock_dedup(lst, rec) ==
    IF \E n \in 1..Len(lst) : lst[n].code = rec.code
    THEN [n \in 1..Len(lst) |-> IF lst[n].code = rec.code THEN rec ELSE lst[n]]
    ELSE Append(lst, rec)

\* stocks.append({...})
AppendStock(lst, rec) == Append(lst, rec)

\* where the cursor goes after a record is appended
CursorAfterEmit(cur, j) == j

\* where the cursor goes when the cell gives no record
CursorAfterSkip(cur) == cur + 1

Scanning == ext_pc = "scan" /\ i <= Len(all_tds)

AtMarker == Scanning /\ IsRankMarker(all_tds[i].text)

HasNameCell == i + 1 <= Len(all_tds)

Collected == CollectValues(all_tds, i + 2, <<>>)

\* the cell at the cursor is no rank marker
ScanSkipCell ==
    /\ Scanning
    /\ ~IsRankMarker(all_tds[i].text)
    /\ i' = CursorAfterSkip(i)
    /\ UNCHANGED <<all_tds, ext_stocks, spans, ext_pc>>
    /\ OnlyExt

\* a rank marker in the last cell: break, then return
ScanBreak ==
    /\ AtMarker
    /\ ~HasNameCell
    /\ ext_pc' = "returned"
    /\ UNCHANGED <<all_tds, i, ext_stocks, spans>>
    /\ OnlyExt

\* no stock code in the name cell
ScanNoCode ==
    /\ AtMarker
    /\ HasNameCell
    /\ StockCode(all_tds[i + 1]) = <<>>
    /\ i' = CursorAfterSkip(i)
    /\ UNCHANGED <<all_tds, ext_stocks, spans, ext_pc>>
    /\ OnlyExt

\* fewer than 6 values after the name cell
ScanShortRow ==
    /\ AtMarker
    /\ HasNameCell
    /\ StockCode(all_tds[i + 1]) # <<>>
    /\ ~EnoughValues(Collected.remaining)
    /\ i' = CursorAfterSkip(i)
    /\ UNCHANGED <<all_tds, ext_stocks, spans, ext_pc>>
    /\ OnlyExt

\* a record is appended and the cursor jumps past the consumed cells
ScanEmit ==
    /\ AtMarker
    /\ HasNameCell
    /\ StockCode(all_tds[i + 1]) # <<>>
    /\ EnoughValues(Collected.remaining)
    /\ ext_stocks' = AppendStock(ext_stocks,
                                 MakeStock(int(all_tds[i].text),
                                           StockCode(all_tds[i + 1]),
                                           StockName(all_tds[i + 1].text),
                                           Collected.remaining))
    /\ spans' = Append(spans, [marker |-> i, end |-> Collected.j])
    /\ i' = CursorAfterEmit(i, Collected.j)
    /\ UNCHANGED <<all_tds, ext_pc>>
    /\ OnlyExt

\* the cursor is past the last cell: return stocks
ScanReturn ==
    /\ ext_pc = "scan"
    /\ i > Len(all_tds)
    /\ ext_pc' = "returned"
    /\ UNCHANGED <<all_tds, i, ext_stocks, spans>>
    /\ OnlyExt

----------------------------------------------------------------------------
(* Pages fed to the scan: up to MaxSegs segments, the k-th carrying rank k *)

MaxSegs == 3

NoAnchor == [kind |-> "none", arg |-> <<>>]
Stk(code) == [kind |-> "Link2Stk", arg |-> code]
Td(text) == [text |-> text, a |-> NoAnchor]
TdA(text, anchor) == [text |-> text, a |-> anchor]

Code2330 == <<"2", "3", "3", "0">>
Code2317 == <<"2", "3", "1", "7">>
Code2881A == <<"2", "8", "8", "1", "A">>

RankText(k) == <<DigitChars[k + 1]>>

\* the six value cells of a row; the horizon change is -k, the volume v
RowValues(k, vol) ==
    <<Td(<<"4", "5", ".", "3">>), Td(<<"-", "1", ".", "2">>),
      Td(<<"-", "2", ".", "5", "8", "%">>), Td(vol),
      Td(<<"-", DigitChars[k + 1]>>), Td(<<"-", "1", "0", ".", "2", "%">>)>>

Vol1234 == <<"1", ",", "2", "3", "4">>
Vol500 == <<"5", "0", "0">>

SegKinds == {"well", "text", "extra", "short", "header", "nocode", "long", "lone"}

Seg(kind, k) ==
    CASE kind = "well" ->
           <<Td(RankText(k)), TdA(<<"T", "S", "M", "C">>, Stk(Code2330))>>
           \o RowValues(k, Vol1234)
      [] kind = "text" ->
           <<Td(RankText(k)), Td(Code2881A \o <<" ", "F", "B">>)>>
           \o RowValues(k, Vol500)
      [] kind = "extra" ->
           <<Td(RankText(k)), TdA(<<"H", "H">>, Stk(Code2317))>>
           \o SubSeq(RowValues(k, Vol1234), 1, 2) \o <<Td(<<>>)>>
           \o SubSeq(RowValues(k, Vol1234), 3, 6)
      [] kind = "short" ->
           <<Td(RankText(k)), TdA(<<"T", "S", "M", "C">>, Stk(Code2330)),
             Td(<<"4", "5", ".", "3">>), Td(Vol500)>>
      [] kind = "header" ->
           <<Td(<<"N", "o">>), Td(<<>>)>>
      [] kind = "nocode" ->
           <<Td(RankText(k)),
             TdA(<<"A", "B", "C">>, [kind |-> "other", arg |-> <<"x">>])>>
           \o RowValues(k, Vol1234)
      [] kind = "long" ->
           <<Td(RankText(k)), TdA(<<"H", "H">>, Stk(Code2317))>>
           \o RowValues(k, Vol500) \o <<Td(<<"x">>), Td(<<"y">>)>>
      [] kind = "lone" ->
           <<Td(RankText(k))>>

RECURSIVE Page(_, _)
Page(kinds, k) ==
    IF k > Len(kinds) THEN <<>> ELSE Seg(kinds[k], k) \o Page(kinds, k + 1)

Pages == {Page(kinds, 1) : kinds \in UNION {[1..n -> SegKinds] : n \in 0..MaxSegs}}

ExtIdle ==
    /\ all_tds = <<>>
    /\ i = 1
    /\ ext_stocks = <<>>
    /\ spans = <<>>
    /\ ext_pc = "idle"

ExtInit ==
    /\ all_tds \in Pages
    /\ i = 1
    /\ ext_stocks = <<>>
    /\ spans = <<>>
    /\ ext_pc = "scan"

ExtNext ==
    \/ ScanSkipCell
    \/ ScanBreak
    \/ ScanNoCode
    \/ ScanShortRow
    \/ ScanEmit
    \/ ScanReturn

----------------------------------------------------------------------------
(* fetch_twse_foreign_data: lookup build and backward date walk *)

MaxBack == 7

\* Python dicts keep insertion order; a dict is a sequence of [k, v] pairs
DictHas(d, k) == \E n \in 1..Len(d) : d[n].k = k

DictGet(d, k) == d[CHOOSE n \in 1..Len(d) : d[n].k = k].v

\* d[k] = v: overwrite in place when the key exists, else append
DictSet(d, k, v) ==
    IF DictHas(d, k)
    THEN [n \in 1..Len(d) |-> IF d[n].k = k THEN [k |-> k, v |-> v] ELSE d[n]]
    ELSE Append(d, [k |-> k, v |-> v])

DictKeys(d) == {d[n].k : n \in 1..Len(d)}

\* str.strip() for blanks
Strip(t) ==
    LET idx == {k \in 1..Len(t) : t[k] # " "}
        lo  == CHOOSE k \in idx : \A l \in idx : k <= l
        hi  == CHOOSE k \in idx : \A l \in idx : k >= l
    IN  IF idx = {} THEN <<>> ELSE SubSeq(t, lo, hi)

\* parse_shares: int() of the text without commas, 0 when int() raises
parse_shares(val) ==
    LET t      == Remove(Strip(val), {","})
        signed == Len(t) > 0 /\ t[1] \in {"-", "+"}
        body   == IF signed THEN Tail(t) ELSE t
    IN  IF ~isdigit(body) THEN 0
        ELSE IF signed /\ t[1] = "-" THEN 0 - int(body) ELSE int(body)

\* shares to lots: Python's // (floor division)
ToLots(shares) == shares \div 1000

\* the foreign_map entry of one row
FlowEntry(row) ==
    [name        |-> Strip(row[2]),
     buy         |-> ToLots(parse_shares(row[3])),
     sell        |-> ToLots(parse_shares(row[4])),
     net         |-> ToLots(parse_shares(row[5])),
     buy_shares  |-> parse_shares(row[3]),
     sell_shares |-> parse_shares(row[4]),
     net_shares  |-> parse_shares(row[5])]

\* for row in data["data"]: foreign_map[code] = {...}
RECURSIVE BuildLookup(_, _)
BuildLookup(rows, fmap) ==
    IF rows = <<>> THEN fmap
    ELSE BuildLookup(Tail(rows),
                     DictSet(fmap, Strip(Head(rows)[1]), FlowEntry(Head(rows))))

\* data.get("stat") == "OK" and data.get("data")
Usable(data) == data.stat = "OK" /\ data.data # <<>>

IsLeap(y) == (y % 4 = 0 /\ y % 100 # 0) \/ y % 400 = 0

DaysInMonth(y, m) ==
    IF m = 2 THEN (IF IsLeap(y) THEN 29 ELSE 28)
    ELSE IF m \in {4, 6, 9, 11} THEN 30 ELSE 31

\* n written with w digits, zero padded
RECURSIVE Pad(_, _)
Pad(n, w) == IF w = 0 THEN <<>>
             ELSE Append(Pad(n \div 10, w - 1), DigitChars[(n % 10) + 1])

\* dt.strftime("%Y%m%d")
strftime(dt) == Pad(dt.y, 4) \o Pad(dt.m, 2) \o Pad(dt.d, 2)

\* datetime.strptime(text, "%Y%m%d")
strptime(text) ==
    [y |-> int(SubSeq(text, 1, 4)),
     m |-> int(SubSeq(text, 5, 6)),
     d |-> int(SubSeq(text, 7, 8))]

PrevDay(dt) ==
    IF dt.d > 1 THEN [dt EXCEPT !.d = dt.d - 1]
    ELSE IF dt.m > 1
         THEN [y |-> dt.y, m |-> dt.m - 1, d |-> DaysInMonth(dt.y, dt.m - 1)]
         ELSE [y |-> dt.y - 1, m |-> 12, d |-> 31]

\* dt - timedelta(days=n)
RECURSIVE MinusDays(_, _)
MinusDays(dt, n) == IF n = 0 THEN dt ELSE MinusDays(PrevDay(dt), n - 1)

\* the i-th earlier day of the walk, as YYYYMMDD
PrevDate(target, n) == strftime(MinusDays(strptime(target), n))

\* f"{date[4:6]}/{date[6:8]}"
DisplayDate(date) == SubSeq(date, 5, 6) \o <<"/">> \o SubSeq(date, 7, 8)

\* mutant: the requested day is reported, not the day that had data
ReportedDate_target(target, n) == target

\* the date whose display form the walk reports on success at step n
ReportedDate(target, n) == PrevDate(target, n)

\* mutant: range(1, 7)
WalkInRange_short(n) == n < MaxBack

\* the walk goes on while i is in range(1, 8)
WalkInRange(n) == n <= MaxBack

Sp == " "

RowsA ==
    <<<<Code2330 \o <<Sp>>, <<"T">>, <<"3", ",", "0", "0", "0">>,
        <<"5", "0", "0">>, <<"2", ",", "5", "0", "0">>>>,
      <<Code2317, <<"H">>, <<"0">>, <<"1", ",", "5", "0", "0">>,
        <<"-", "1", ",", "5", "0", "0">>>>>>

RowsB ==
    <<<<Code2330, <<"T">>, <<"1", "0", "0", "0">>, <<"-", "-">>,
        <<"1", "0", "0", "0">>>>,
      <<Code2330, <<"T", "2">>, <<"0">>, <<"5", "0", "0">>,
        <<"-", "5", "0", "0">>>>>>

UsableResponses ==
    {[stat |-> "OK", data |-> RowsA], [stat |-> "OK", data |-> RowsB]}

\* an OK status without rows, and rows under a status that is not OK
UnusableResponses ==
    {[stat |-> "OK", data |-> <<>>],
     [stat |-> "NODATA", data |-> RowsA]}

Responses == UsableResponses \cup UnusableResponses

TargetDates ==
    {strftime([y |-> 2026, m |-> 11, d |-> 2]),
     strftime([y |-> 2026, m |-> 3, d |-> 3]),
     strftime([y |-> 2024, m |-> 3, d |-> 4]),
     strftime([y |-> 2026, m |-> 1, d |-> 5])}

\* the first request, for target_date, is usable
FlowFirstUsable ==
    /\ flow_pc = "start"
    /\ \E data \in Responses :
         /\ Usable(data)
         /\ requests' = Append(requests, target_date)
         /\ responses' = Append(responses, data)
         /\ foreign_map' = BuildLookup(data.data, <<>>)
         /\ actual_date' = DisplayDate(ReportedDate(target_date, 0))
    /\ flow_pc' = "returned"
    /\ UNCHANGED <<target_date, walk_i>>
    /\ OnlyFlow

\* the first request is not usable: enter the backward loop
FlowFirstUnusable ==
    /\ flow_pc = "start"
    /\ \E data \in Responses :
         /\ ~Usable(data)
         /\ requests' = Append(requests, target_date)
         /\ responses' = Append(responses, data)
    /\ walk_i' = 1
    /\ flow_pc' = "walk"
    /\ UNCHANGED <<target_date, foreign_map, actual_date>>
    /\ OnlyFlow

\* one pass of the for loop whose response is usable: build, then break
FlowWalkUsable ==
    /\ flow_pc = "walk"
    /\ WalkInRange(walk_i)
    /\ \E data2 \in Responses :
         /\ Usable(data2)
         /\ requests' = Append(requests, PrevDate(target_date, walk_i))
         /\ responses' = Append(responses, data2)
         /\ foreign_map' = BuildLookup(data2.data, foreign_map)
         /\ actual_date' = DisplayDate(ReportedDate(target_date, walk_i))
    /\ flow_pc' = "returned"
    /\ UNCHANGED <<target_date, walk_i>>
    /\ OnlyFlow

\* one pass of the for loop whose response is not usable
FlowWalkUnusable ==
    /\ flow_pc = "walk"
    /\ WalkInRange(walk_i)
    /\ \E data2 \in Responses :
         /\ ~Usable(data2)
         /\ requests' = Append(requests, PrevDate(target_date, walk_i))
         /\ responses' = Append(responses, data2)
    /\ walk_i' = walk_i + 1
    /\ UNCHANGED <<target_date, foreign_map, actual_date, flow_pc>>
    /\ OnlyFlow

\* the for loop ran out (its else branch): return the empty results
FlowExhausted ==
    /\ flow_pc = "walk"
    /\ ~WalkInRange(walk_i)
    /\ flow_pc' = "returned"
    /\ UNCHANGED <<target_date, walk_i, requests, responses, foreign_map,
                   actual_date>>
    /\ OnlyFlow

FlowIdle ==
    /\ target_date = <<>>
    /\ walk_i = 0
    /\ requests = <<>>
    /\ responses = <<>>
    /\ actual_date = <<>>
    /\ flow_pc = "idle"

FlowInit ==
    /\ target_date \in TargetDates
    /\ walk_i = 0
    /\ requests = <<>>
    /\ responses = <<>>
    /\ foreign_map = <<>>
    /\ actual_date = <<>>
    /\ flow_pc = "start"

FlowNext ==
    \/ FlowFirstUsable
    \/ FlowFirstUnusable
    \/ FlowWalkUsable
    \/ FlowWalkUnusable
    \/ FlowExhausted

MainIdle ==
    /\ stocks_5d = <<>>
    /\ stocks_10d = <<>>
    /\ five_day_map = <<>>
    /\ ten_day_map = <<>>
    /\ stocks = <<>>
    /\ date_5d = <<>>
    /\ date_10d = <<>>
    /\ date_foreign = <<>>
    /\ buying = <<>>
    /\ selling = <<>>
    /\ nodata = <<>>
    /\ html = None
    /\ pc = "idle"
    /\ calls = <<>>

InitExtract == ExtInit /\ FlowIdle /\ foreign_map = <<>> /\ MainIdle

SpecExtract == InitExtract /\ [][ExtNext]_vars

InitFlow == FlowInit /\ ExtIdle /\ MainIdle

SpecFlow == InitFlow /\ [][FlowNext]_vars

----------------------------------------------------------------------------
(* main: the two-horizon merge, and merge_and_classify *)

Max5 == 2
Max10 == 2

Codes == {Code2330, Code2317, Code2881A}

\* a record as fetch_fubon_ranking returns it for the k-th row of the page of
\* horizon h (5 or 10): rank k, horizon fields that name h and k
StockRec(h, k, code) ==
    MakeStock(k, code, <<"n">> \o Pad(h, 2),
              <<<<"4", "5", ".", "3">>, <<"-", "1", ".", "2">>,
                <<"-", "2", ".", "5", "8", "%">>, Vol1234,
                <<"-">> \o Pad(h, 2) \o <<DigitChars[k + 1]>>,
                <<"-">> \o Pad(h, 2) \o <<".", DigitChars[k + 1], "%">>>>)

\* the records of both horizons, by horizon, row and code
StockTable ==
    [h \in {5, 10}, k \in 1..(Max5 + Max10), code \in Codes |-> StockRec(h, k, code)]

StockLists(h, maxlen) ==
    {[k \in 1..Len(cs) |-> StockTable[h, k, cs[k]]] :
        cs \in UNION {[1..n -> Codes] : n \in 0..maxlen}}

Lists5 == StockLists(5, Max5)

Lists10 == StockLists(10, Max10)

\* five_day_map[s["code"]] = s for s in stocks_5d; the values are the list's own
\* records (the same objects), held here as their positions in stocks_5d
RECURSIVE FiveDayMap(_, _, _)
FiveDayMap(lst, k, m) ==
    IF k > Len(lst) THEN m
    ELSE FiveDayMap(lst, k + 1, DictSet(m, lst[k].code, k))

TenDayEntry(s) ==
    [ten_day_change |-> s.five_day_change,
     ten_day_pct    |-> s.five_day_pct,
     ten_day_rank   |-> s.rank,
     full           |-> s]

RECURSIVE TenDayMap(_, _, _)
TenDayMap(lst, k, m) ==
    IF k > Len(lst) THEN m
    ELSE TenDayMap(lst, k + 1, DictSet(m, lst[k].code, TenDayEntry(lst[k])))

\* (A) td = ten_day_map.get(code, {}); s gets td.get(...) for both fields
AttachTenDay(s, tdm) ==
    IF DictHas(tdm, s.code)
    THEN [ten_day_change |-> DictGet(tdm, s.code).ten_day_change,
          ten_day_pct    |-> DictGet(tdm, s.code).ten_day_pct] @@ s
    ELSE [ten_day_change |-> None, ten_day_pct |-> None] @@ s

\* mutant: loop (A) runs over five_day_map.values(), one record per identifier
MergePrimary_bymap(lst, tdm) ==
    LET fdm == FiveDayMap(lst, 1, <<>>)
    IN  [n \in 1..Len(fdm) |-> AttachTenDay(lst[fdm[n].v], tdm)]

\* (A) the records the first loop appends to stocks: one per entry of stocks_5d
MergePrimary(lst, tdm) == [k \in 1..Len(lst) |-> AttachTenDay(lst[k], tdm)]

\* mutant: the 5-day fields are copied from the 10-day record
SecondaryOnly_copied(td) ==
    [rank            |-> td.full.rank,
     code            |-> td.full.code,
     name            |-> td.full.name,
     close           |-> td.full.close,
     change          |-> td.full.change,
     change_pct      |-> td.full.change_pct,
     volume          |-> td.full.volume,
     five_day_change |-> td.full.five_day_change,
     five_day_pct    |-> td.full.five_day_pct,
     ten_day_change  |-> td.ten_day_change,
     ten_day_pct     |-> td.ten_day_pct]

\* (B) the record built for a code that is only in the 10-day list
SecondaryOnly(td) ==
    [rank            |-> td.full.rank,
     code            |-> td.full.code,
     name            |-> td.full.name,
     close           |-> td.full.close,
     change          |-> td.full.change,
     change_pct      |-> td.full.change_pct,
     volume          |-> td.full.volume,
     five_day_change |-> None,
     five_day_pct    |-> None,
     ten_day_change  |-> td.ten_day_change,
     ten_day_pct     |-> td.ten_day_pct]

\* (B) for code, td in ten_day_map.items(): if code not in five_day_map: append
RECURSIVE MergeSecondary(_, _, _, _)
MergeSecondary(tdm, k, fdm, acc) ==
    IF k > Len(tdm) THEN acc
    ELSE MergeSecondary(tdm, k + 1, fdm,
                        IF DictHas(fdm, tdm[k].k) THEN acc
                        ELSE Append(acc, SecondaryOnly(tdm[k].v)))

\* mutant: the record's own fields win over the flow entry's
MergeFound_keepname(s, fdata) == s @@ fdata

\* merged = {**s, **fdata}
MergeFound(s, fdata) == fdata @@ s

\* merged = {**s, "buy": None, ...}
MergeMissing(s) ==
    [buy |-> None, sell |-> None, net |-> None,
     buy_shares |-> None, sell_shares |-> None, net_shares |-> None] @@ s

\* if fdata: (foreign_map.get(code) is None, or an entry, which is never empty)
HasFlow(fmap, code) == DictHas(fmap, code)

\* mutant: zero net flow counts as buying
IsBuying_orzero(fdata) == fdata.net >= 0

\* if fdata["net"] > 0:
IsBuying(fdata) == fdata.net > 0

\* mutant: a second test net < 0 instead of else, so zero net flow is dropped
ClassifyOne_dropzero(acc, s, fmap) ==
    IF HasFlow(fmap, s.code)
    THEN LET fdata == DictGet(fmap, s.code)
         IN  IF fdata.net > 0
             THEN [acc EXCEPT !.buying = Append(@, MergeFound(s, fdata))]
             ELSE IF fdata.net < 0
                  THEN [acc EXCEPT !.selling = Append(@, MergeFound(s, fdata))]
                  ELSE acc
    ELSE [acc EXCEPT !.nodata = Append(@, MergeMissing(s))]

\* one pass of the for loop of merge_and_classify
ClassifyOne(acc, s, fmap) ==
    IF HasFlow(fmap, s.code)
    THEN LET fdata == DictGet(fmap, s.code)
         IN  IF IsBuying(fdata)
             THEN [acc EXCEPT !.buying = Append(@, MergeFound(s, fdata))]
             ELSE [acc EXCEPT !.selling = Append(@, MergeFound(s, fdata))]
    ELSE [acc EXCEPT !.nodata = Append(@, MergeMissing(s))]

RECURSIVE ClassifyLoop(_, _, _, _)
ClassifyLoop(lst, k, fmap, acc) ==
    IF k > Len(lst) THEN acc
    ELSE ClassifyLoop(lst, k + 1, fmap, ClassifyOne(acc, lst[k], fmap))

\* list.sort is stable, also with reverse=True: x goes behind every element
\* that does not have to follow it
InsertAscending(lst, x) ==
    LET p == Cardinality({k \in 1..Len(lst) : lst[k].net <= x.net})
    IN  SubSeq(lst, 1, p) \o <<x>> \o SubSeq(lst, p + 1, Len(lst))

InsertDescending(lst, x) ==
    LET p == Cardinality({k \in 1..Len(lst) : lst[k].net >= x.net})
    IN  SubSeq(lst, 1, p) \o <<x>> \o SubSeq(lst, p + 1, Len(lst))

RECURSIVE SortAscendingFrom(_, _, _)
SortAscendingFrom(lst, k, acc) ==
    IF k > Len(lst) THEN acc
    ELSE SortAscendingFrom(lst, k + 1, InsertAscending(acc, lst[k]))

RECURSIVE SortDescendingFrom(_, _, _)
SortDescendingFrom(lst, k, acc) ==
    IF k > Len(lst) THEN acc
    ELSE SortDescendingFrom(lst, k + 1, InsertDescending(acc, lst[k]))

\* selling_list.sort(key=lambda x: x["net"])
SortSelling(lst) == SortAscendingFrom(lst, 1, <<>>)

\* mutant: reverse=True forgotten
SortBuying_ascending(lst) == SortAscendingFrom(lst, 1, <<>>)

\* mutant: sorted ascending and then reversed, which turns ties around
SortBuying_reversed(lst) ==
    LET a == SortAscendingFrom(lst, 1, <<>>)
    IN  [k \in 1..Len(a) |-> a[Len(a) + 1 - k]]

\* buying_list.sort(key=lambda x: x["net"], reverse=True)
SortBuying(lst) == SortDescendingFrom(lst, 1, <<>>)

merge_and_classify(lst, fmap) ==
    LET acc == ClassifyLoop(lst, 1, fmap,
                            [buying |-> <<>>, selling |-> <<>>, nodata |-> <<>>])
    IN  [buying  |-> SortBuying(acc.buying),
         selling |-> SortSelling(acc.selling),
         nodata  |-> acc.nodata]

\* generate_html: the date warning is left out iff this holds
DatesInSync(d5, dforeign) ==
    (d5 = dforeign /\ d5 # <<>>) \/ (d5 = <<>> /\ dforeign = <<>>)

generate_html(b, s, n, d5, d10, dforeign) ==
    [total        |-> Len(b) + Len(s) + Len(n),
     date_5d      |-> d5,
     date_10d     |-> d10,
     date_foreign |-> dforeign,
     date_warning |-> ~DatesInSync(d5, dforeign),
     buying       |-> b,
     selling      |-> s,
     nodata       |-> n]

\* the date both sources report when they are in step
SyncDate == <<"0", "2", "/", "0", "5">>

PageDates == {SyncDate, <<"0", "2", "/", "0", "4">>}

\* what fetch_fubon_ranking can return: the records with the page's date, which
\* is empty when the page shows none; the date varies on the short pages
FubonPages(lists) ==
    {[stocks |-> lst, date |-> SyncDate] : lst \in lists}
        \cup {[stocks |-> lst, date |-> d] :
                 lst \in {l \in lists : Len(l) <= 1}, d \in PageDates \cup {<<>>}}

Pages5 == FubonPages(Lists5)

Pages10 == FubonPages(Lists10)

\* the share counts the feed reports for one code in main's run
NetChoices == {<<>>, <<"-", "1", ",", "5", "0", "0">>, <<"0">>,
               <<"1", ",", "2", "0", "0">>, <<"2", ",", "5", "0", "0">>}

CodeOrder == <<Code2330, Code2317, Code2881A>>

\* the rows of a feed response that reports net[c] for the codes with one
FeedRows(net) ==
    LET Row(c) == <<c, <<"f">> \o c, <<"3", ",", "0", "0", "0">>,
                    <<"5", "0", "0">>, net[c]>>
        Sel(k) == IF net[CodeOrder[k]] = <<>> THEN <<>> ELSE <<Row(CodeOrder[k])>>
    IN  Sel(1) \o Sel(2) \o Sel(3)

\* what fetch_twse_foreign_data can return: the lookup of a usable response
\* with its date, or the empty lookup and date after the walk is exhausted
FlowResult(net, day) ==
    [map  |-> BuildLookup(FeedRows(net), <<>>),
     date |-> IF FeedRows(net) = <<>> THEN <<>>
              ELSE DisplayDate(strftime([y |-> 2026, m |-> 2, d |-> day]))]

\* the day with data is the 5th, or the 4th for the feeds with one row
FlowResults ==
    {FlowResult(net, 5) : net \in [Codes -> NetChoices]}
        \cup {FlowResult(net, 4) :
                 net \in {n \in [Codes -> NetChoices] :
                            n[Code2317] = <<>> /\ n[Code2881A] = <<>>}}

\* mutant: no check of the 5-day records
AfterFirstFetch_nocheck(lst) == "fetch10"

\* if not stocks_5d: return, else go on with the 10-day page
AfterFirstFetch(lst) == IF lst = <<>> THEN "aborted" ELSE "fetch10"

\* the 5-day extraction is empty: main returns
Fetch5dEmpty ==
    /\ pc = "start"
    /\ \E p \in Pages5 :
         /\ p.stocks = <<>>
         /\ stocks_5d' = p.stocks
         /\ date_5d' = p.date
         /\ pc' = AfterFirstFetch(p.stocks)
    /\ calls' = Append(calls, "fetch_fubon_ranking")
    /\ UNCHANGED <<stocks_10d, five_day_map, ten_day_map, stocks, date_10d,
                   date_foreign, buying, selling, nodata, html, foreign_map>>
    /\ UNCHANGED <<extVars, flowVars>>

Fetch5dOk ==
    /\ pc = "start"
    /\ \E p \in Pages5 :
         /\ p.stocks # <<>>
         /\ stocks_5d' = p.stocks
         /\ date_5d' = p.date
         /\ pc' = AfterFirstFetch(p.stocks)
    /\ calls' = Append(calls, "fetch_fubon_ranking")
    /\ UNCHANGED <<stocks_10d, five_day_map, ten_day_map, stocks, date_10d,
                   date_foreign, buying, selling, nodata, html, foreign_map>>
    /\ UNCHANGED <<extVars, flowVars>>

Fetch10d ==
    /\ pc = "fetch10"
    /\ \E p \in Pages10 : stocks_10d' = p.stocks /\ date_10d' = p.date
    /\ pc' = "merge"
    /\ calls' = Append(calls, "fetch_fubon_ranking")
    /\ UNCHANGED <<stocks_5d, five_day_map, ten_day_map, stocks, date_5d,
                   date_foreign, buying, selling, nodata, html, foreign_map>>
    /\ UNCHANGED <<extVars, flowVars>>

\* lines 848-893: both maps, loop (A), which also writes the 10-day fields into
\* the records of stocks_5d, and loop (B)
MergeHorizons ==
    /\ pc = "merge"
    /\ five_day_map' = FiveDayMap(stocks_5d, 1, <<>>)
    /\ ten_day_map' = TenDayMap(stocks_10d, 1, <<>>)
    /\ stocks_5d' = MergePrimary(stocks_5d, ten_day_map')
    /\ stocks' = MergeSecondary(ten_day_map', 1, five_day_map',
                                MergePrimary(stocks_5d, ten_day_map'))
    /\ pc' = "flow"
    /\ calls' = Append(calls, "merge")
    /\ UNCHANGED <<stocks_10d, date_5d, date_10d, date_foreign, buying, selling,
                   nodata, html, foreign_map>>
    /\ UNCHANGED <<extVars, flowVars>>

FetchFlow ==
    /\ pc = "flow"
    /\ \E r \in FlowResults : foreign_map' = r.map /\ date_foreign' = r.date
    /\ pc' = "classify"
    /\ calls' = Append(calls, "fetch_twse_foreign_data")
    /\ UNCHANGED <<stocks_5d, stocks_10d, five_day_map, ten_day_map, stocks,
                   date_5d, date_10d, buying, selling, nodata, html>>
    /\ UNCHANGED <<extVars, flowVars>>

Classify ==
    /\ pc = "classify"
    /\ buying' = merge_and_classify(stocks, foreign_map).buying
    /\ selling' = merge_and_classify(stocks, foreign_map).selling
    /\ nodata' = merge_and_classify(stocks, foreign_map).nodata
    /\ pc' = "report"
    /\ calls' = Append(calls, "merge_and_classify")
    /\ UNCHANGED <<stocks_5d, stocks_10d, five_day_map, ten_day_map, stocks,
                   date_5d, date_10d, date_foreign, html, foreign_map>>
    /\ UNCHANGED <<extVars, flowVars>>

Report ==
    /\ pc = "report"
    /\ html' = Some(generate_html(buying, selling, nodata,
                                  date_5d, date_10d, date_foreign))
    /\ pc' = "done"
    /\ calls' = Append(calls, "generate_html")
    /\ UNCHANGED <<stocks_5d, stocks_10d, five_day_map, ten_day_map, stocks,
                   date_5d, date_10d, date_foreign, buying, selling, nodata,
                   foreign_map>>
    /\ UNCHANGED <<extVars, flowVars>>

Init ==
    /\ ExtIdle
    /\ FlowIdle
    /\ foreign_map = <<>>
    /\ stocks_5d = <<>>
    /\ stocks_10d = <<>>
    /\ five_day_map = <<>>
    /\ ten_day_map = <<>>
    /\ stocks = <<>>
    /\ date_5d = <<>>
    /\ date_10d = <<>>
    /\ date_foreign = <<>>
    /\ buying = <<>>
    /\ selling = <<>>
    /\ nodata = <<>>
    /\ html = None
    /\ pc = "start"
    /\ calls = <<>>

Next ==
    \/ Fetch5dEmpty
    \/ Fetch5dOk
    \/ Fetch10d
    \/ MergeHorizons
    \/ FetchFlow
    \/ Classify
    \/ Report

Spec == Init /\ [][Next]_vars

----------------------------------------------------------------------------
(* Claims about merge_and_classify and the merge of main (under Spec) *)

Merged == pc \in {"flow", "classify", "report", "done"}

Classified == pc \in {"report", "done"}

CodesOf(lst) == {lst[k].code : k \in 1..Len(lst)}

\* what tells the records of the merged list apart: primary records differ in
\* rank, secondary-only records in code, and the two kinds in five_day_change
Key(r) == <<r.rank, r.code, r.five_day_change, r.ten_day_change>>

\* the positions of group g that hold the merged record s
Places(g, s) == {p \in 1..Len(g) : Key(g[p]) = Key(s)}

\* the position in the merged list of the record r of a group
Pos(r) == CHOOSE k \in 1..Len(stocks) : Key(stocks[k]) = Key(r)

FlowFields == {"buy", "sell", "net", "buy_shares", "sell_shares", "net_shares"}

\* C1: merge_and_classify puts every merged record into exactly one of buying,
\* selling and noFlowData: the three lengths add up to the length of the merged
\* list, and no identifier is in two groups, also with repeated identifiers.
C1_Partition ==
    Classified =>
        /\ Len(buying) + Len(selling) + Len(nodata) = Len(stocks)
        /\ \A k \in 1..Len(stocks) :
               Cardinality(Places(buying, stocks[k]))
               + Cardinality(Places(selling, stocks[k]))
               + Cardinality(Places(nodata, stocks[k])) = 1
        /\ CodesOf(buying) \cap CodesOf(selling) = {}
        /\ CodesOf(buying) \cap CodesOf(nodata) = {}
        /\ CodesOf(selling) \cap CodesOf(nodata) = {}

\* C1 witness: all three groups are in use and an identifier occurs twice
C1_Witness ==
    /\ Classified
    /\ buying # <<>> /\ selling # <<>> /\ nodata # <<>>
    /\ Cardinality(CodesOf(stocks)) < Len(stocks)

\* C2: a merged record is in buying iff its identifier is a key of the lookup
\* with netLots > 0, in selling iff it is a key with netLots <= 0 (zero is
\* selling), in noFlowData iff it is no key, and then its six flow fields are
\* None.
C2_ClassificationRule ==
    Classified =>
        /\ \A p \in 1..Len(buying) :
               /\ buying[p].code \in DictKeys(foreign_map)
               /\ DictGet(foreign_map, buying[p].code).net > 0
               /\ buying[p].net = DictGet(foreign_map, buying[p].code).net
        /\ \A p \in 1..Len(selling) :
               /\ selling[p].code \in DictKeys(foreign_map)
               /\ DictGet(foreign_map, selling[p].code).net <= 0
               /\ selling[p].net = DictGet(foreign_map, selling[p].code).net
        /\ \A p \in 1..Len(nodata) :
               /\ nodata[p].code \notin DictKeys(foreign_map)
               /\ \A f \in FlowFields : nodata[p][f] = None
        /\ \A k \in 1..Len(stocks) :
               LET s == stocks[k]
               IN  IF s.code \notin DictKeys(foreign_map)
                   THEN Places(nodata, s) # {}
                   ELSE IF DictGet(foreign_map, s.code).net > 0
                        THEN Places(buying, s) # {}
                        ELSE Places(selling, s) # {}

\* C2 witness: a record with zero net flow is in selling, next to a buying and
\* a noFlowData record
C2_Witness ==
    /\ Classified
    /\ \E p \in 1..Len(selling) : selling[p].net = 0
    /\ buying # <<>>
    /\ nodata # <<>>

\* C3: buying is non-increasing by netLots, selling non-decreasing, and
\* noFlowData keeps the relative order of the merged input list.
C3_Ordering ==
    Classified =>
        /\ \A p, q \in 1..Len(buying) : p < q => buying[p].net >= buying[q].net
        /\ \A p, q \in 1..Len(selling) : p < q => selling[p].net <= selling[q].net
        /\ \A p, q \in 1..Len(nodata) : p < q => Pos(nodata[p]) < Pos(nodata[q])

\* C3 witness: the descending sort had to move a record, and noFlowData holds
\* two records
C3_Witness ==
    /\ Classified
    /\ Len(buying) = 2 /\ Pos(buying[1]) > Pos(buying[2])
    /\ buying[1].net > buying[2].net
    /\ Len(nodata) = 2

\* C4 as claimed: within buying and within selling, records of equal netLots
\* come in ascending order of their rank field, secondary-only records
\* included.
C4_TiesByRank ==
    Classified =>
        /\ \A p, q \in 1..Len(buying) :
               p < q /\ buying[p].net = buying[q].net
                   => buying[p].rank <= buying[q].rank
        /\ \A p, q \in 1..Len(selling) :
               p < q /\ selling[p].net = selling[q].net
                   => selling[p].rank <= selling[q].rank

\* C4 amended: within buying and within selling, records of equal netLots keep
\* the relative order they had in the merged input list (primary records in
\* source order, then the secondary-only records), whatever their rank fields.
C4_TiesByInputOrder ==
    Classified =>
        /\ \A p, q \in 1..Len(buying) :
               p < q /\ buying[p].net = buying[q].net
                   => Pos(buying[p]) < Pos(buying[q])
        /\ \A p, q \in 1..Len(selling) :
               p < q /\ selling[p].net = selling[q].net
                   => Pos(selling[p]) < Pos(selling[q])

\* C4 witness: a tie in buying between a primary record and a secondary-only
\* record of smaller rank
C4_Witness ==
    /\ Classified
    /\ \E p, q \in 1..Len(buying) :
           /\ p < q
           /\ buying[p].net = buying[q].net
           /\ buying[p].five_day_change # None
           /\ buying[q].five_day_change = None
           /\ buying[p].rank > buying[q].rank

\* the last record of the 10-day list with the code c
Last10(c) ==
    stocks_10d[CHOOSE k \in 1..Len(stocks_10d) :
                   /\ stocks_10d[k].code = c
                   /\ \A l \in k + 1..Len(stocks_10d) : stocks_10d[l].code # c]

\* the last position of the 5-day list with the code c
Last5(c) ==
    CHOOSE k \in 1..Len(stocks_5d) :
        /\ stocks_5d[k].code = c
        /\ \A l \in k + 1..Len(stocks_5d) : stocks_5d[l].code # c

BaseFields == {"rank", "code", "name", "close", "change", "change_pct", "volume"}

\* C5: every primary record is in the merged list with the 10-day fields of
\* the secondary record of its identifier, None without one; every identifier
\* that is only in the secondary list gives exactly one merged record, behind
\* all primary records, with 5-day fields None, the secondary record's horizon
\* fields as 10-day fields and the secondary rank.
C5_TwoHorizonMerge ==
    Merged =>
        LET n5   == Len(stocks_5d)
            only == CodesOf(stocks_10d) \ CodesOf(stocks_5d)
        IN  /\ Len(stocks) = n5 + Cardinality(only)
            /\ \A k \in 1..n5 :
                   LET s == stocks[k]
                       o == StockTable[5, k, s.code]
                   IN  /\ \A f \in BaseFields : s[f] = o[f]
                       /\ s.five_day_change = o.five_day_change
                       /\ s.five_day_pct = o.five_day_pct
                       /\ IF s.code \in CodesOf(stocks_10d)
                          THEN /\ s.ten_day_change = Last10(s.code).five_day_change
                               /\ s.ten_day_pct = Last10(s.code).five_day_pct
                               /\ s.ten_day_change # None
                          ELSE /\ s.ten_day_change = None
                               /\ s.ten_day_pct = None
            /\ \A c \in only :
                   /\ Cardinality({k \in 1..Len(stocks) : stocks[k].code = c}) = 1
                   /\ \E k \in n5 + 1..Len(stocks) :
                          LET s == stocks[k]
                          IN  /\ s.code = c
                              /\ s.five_day_change = None
                              /\ s.five_day_pct = None
                              /\ s.ten_day_change = Last10(c).five_day_change
                              /\ s.ten_day_pct = Last10(c).five_day_pct
                              /\ s.rank = Last10(c).rank
                              /\ \A f \in BaseFields : s[f] = Last10(c)[f]

\* C5 witness: a primary record with and one without a secondary record, and
\* a secondary-only record
C5_Witness ==
    /\ Merged
    /\ \E k \in 1..Len(stocks_5d) : stocks[k].ten_day_change # None
    /\ \E k \in 1..Len(stocks_5d) : stocks[k].ten_day_change = None
    /\ Len(stocks) > Len(stocks_5d)

\* C6 as claimed: a primary list that holds an identifier more than once gives
\* a merged list with exactly one record of that identifier, the one of its
\* last occurrence.
C6_PrimaryDeduplicated ==
    Merged =>
        \A c \in CodesOf(stocks_5d) :
            /\ Cardinality({k \in 1..Len(stocks) : stocks[k].code = c}) = 1
            /\ \E k \in 1..Len(stocks) :
                   stocks[k].code = c /\ stocks[k].rank = stocks_5d[Last5(c)].rank

\* C6 amended: only the lookup five_day_map is last-write-wins (each identifier
\* maps to its last occurrence); the merged list holds one record for every
\* entry of the primary list, in list order, so a repeated identifier is
\* repeated in the merged list, each record with the fields of its own
\* occurrence.
C6_PrimaryDuplicatesKept ==
    Merged =>
        /\ DictKeys(five_day_map) = CodesOf(stocks_5d)
        /\ \A c \in CodesOf(stocks_5d) : DictGet(five_day_map, c) = Last5(c)
        /\ Len(stocks) >= Len(stocks_5d)
        /\ \A k \in 1..Len(stocks_5d) :
               /\ stocks[k].rank = k
               /\ stocks[k].five_day_change = StockTable[5, k, stocks[k].code].five_day_change
        /\ \A c \in CodesOf(stocks_5d) :
               Cardinality({k \in 1..Len(stocks) : stocks[k].code = c})
                   = Cardinality({k \in 1..Len(stocks_5d) : stocks_5d[k].code = c})

\* C6 witness: the primary list holds an identifier twice
C6_Witness ==
    /\ Merged
    /\ Cardinality(CodesOf(stocks_5d)) < Len(stocks_5d)

----------------------------------------------------------------------------
(* Claims about fetch_fubon_ranking (under SpecExtract) *)

\* the number of non-empty cells behind cell k
NonEmptyAfter(k) ==
    Cardinality({l \in k + 1..Len(all_tds) : all_tds[l].text # <<>>})

\* the cell at the cursor is a rank marker, the name cell behind it gives an
\* identifier, and at least 6 non-empty cells follow the name cell
EmitCase ==
    /\ i <= Len(all_tds)
    /\ IsRankMarker(all_tds[i].text)
    /\ i + 1 <= Len(all_tds)
    /\ StockCode(all_tds[i + 1]) # <<>>
    /\ NonEmptyAfter(i + 1) >= 6

\* C7: a step of the scan appends a record for the cell at the cursor iff that
\* cell is a rank marker, the following name cell resolves an identifier and at
\* least 6 non-empty values are collected behind the name cell; the record
\* carries that rank and identifier; every other step appends nothing.
C7_EmitIff ==
    [][ext_pc = "scan" =>
          IF EmitCase
          THEN /\ Len(ext_stocks') = Len(ext_stocks) + 1
               /\ SubSeq(ext_stocks', 1, Len(ext_stocks)) = ext_stocks
               /\ ext_stocks'[Len(ext_stocks')].rank = int(all_tds[i].text)
               /\ ext_stocks'[Len(ext_stocks')].code = StockCode(all_tds[i + 1])
               /\ ext_stocks'[Len(ext_stocks')].code # <<>>
          ELSE ext_stocks' = ext_stocks]_vars

\* C7 witness: the scan returned a record and also passed a rank marker cell
\* that gave none
C7_Witness ==
    /\ ext_pc = "returned"
    /\ ext_stocks # <<>>
    /\ \E k \in 1..Len(all_tds) :
           /\ IsRankMarker(all_tds[k].text)
           /\ k < i
           /\ \A p \in 1..Len(spans) : k < spans[p].marker \/ k >= spans[p].end

\* C8: the records are in strictly increasing order of the position of their
\* rank marker cell, the cell ranges two records consumed never overlap, and a
\* record is never dropped or merged because its identifier repeats.
C8_SourceOrder ==
    /\ Len(ext_stocks) = Len(spans)
    /\ \A p \in 1..Len(spans) :
           /\ p <= Len(ext_stocks)
           /\ spans[p].marker + 2 <= spans[p].end
           /\ spans[p].end <= i
           /\ ext_stocks[p].rank = int(all_tds[spans[p].marker].text)
           /\ ext_stocks[p].code = StockCode(all_tds[spans[p].marker + 1])
    /\ \A p, q \in 1..Len(spans) :
           p < q => /\ spans[p].marker < spans[q].marker
                    /\ spans[p].end <= spans[q].marker

\* C8 witness: two records with the same identifier were returned
C8_Witness ==
    /\ ext_pc = "returned"
    /\ \E p, q \in 1..Len(ext_stocks) :
           p < q /\ ext_stocks[p].code = ext_stocks[q].code

----------------------------------------------------------------------------
(* Claims about fetch_twse_foreign_data (under SpecFlow) *)

MonthDays == <<31, 28, 31, 30, 31, 30, 31, 31, 30, 31, 30, 31>>

LeapYear(y) == y % 400 = 0 \/ (y % 4 = 0 /\ y % 100 # 0)

MonthLen(y, m) == IF m = 2 /\ LeapYear(y) THEN 29 ELSE MonthDays[m]

RECURSIVE DaysBefore(_, _)
DaysBefore(y, m) == IF m = 1 THEN 0 ELSE DaysBefore(y, m - 1) + MonthLen(y, m - 1)

\* the day number of a date in the proleptic Gregorian calendar
Ordinal(dt) ==
    365 * (dt.y - 1) + ((dt.y - 1) \div 4) - ((dt.y - 1) \div 100)
    + ((dt.y - 1) \div 400) + DaysBefore(dt.y, dt.m) + dt.d

TargetDay ==
    [y |-> int(SubSeq(target_date, 1, 4)),
     m |-> int(SubSeq(target_date, 5, 6)),
     d |-> int(SubSeq(target_date, 7, 8))]

\* the calendar day n days before the requested day
DayBefore(n) ==
    CHOOSE dt \in [y : {TargetDay.y - 1, TargetDay.y},
                   m : {TargetDay.m, ((TargetDay.m + 10) % 12) + 1},
                   d : 1..31] :
        /\ dt.d <= MonthLen(dt.y, dt.m)
        /\ Ordinal(dt) = Ordinal(TargetDay) - n

TwoDigits(n) == <<DigitChars[(n \div 10) + 1], DigitChars[(n % 10) + 1]>>

YYYYMMDD(dt) ==
    <<DigitChars[(dt.y \div 1000) + 1], DigitChars[((dt.y \div 100) % 10) + 1]>>
    \o TwoDigits(dt.y % 100) \o TwoDigits(dt.m) \o TwoDigits(dt.d)

MMDD(dt) == TwoDigits(dt.m) \o <<"/">> \o TwoDigits(dt.d)

LastUsable == responses # <<>> /\ Usable(responses[Len(responses)])

\* C9: when the feed is unusable for D .. D-(k-1) and usable for D-k, the
\* function returns at once with actualDate the MM/DD of D-k and a lookup built
\* from the rows of that response only, having requested exactly D, D-1, ..,
\* D-k; for k = 0 actualDate is D and no backward request is made.
C9_DateFallback ==
    LastUsable =>
        LET k == Len(requests) - 1
        IN  /\ flow_pc = "returned"
            /\ Len(responses) = Len(requests)
            /\ \A j \in 1..k : ~Usable(responses[j])
            /\ \A j \in 1..k + 1 : requests[j] = YYYYMMDD(DayBefore(j - 1))
            /\ actual_date = MMDD(DayBefore(k))
            /\ foreign_map = BuildLookup(responses[k + 1].data, <<>>)
            /\ DictKeys(foreign_map)
                   = {Strip(responses[k + 1].data[n][1]) :
                          n \in 1..Len(responses[k + 1].data)}

\* C9 witness: 2026-03-03 was requested, the feed was unusable three times and
\* usable for 2026-02-28
C9_Witness ==
    /\ flow_pc = "returned"
    /\ target_date = <<"2", "0", "2", "6", "0", "3", "0", "3">>
    /\ Len(requests) = 4
    /\ LastUsable
    /\ actual_date = <<"0", "2", "/", "2", "8">>

\* the walk gave up: the function returned without a usable response
Exhausted == flow_pc = "returned" /\ ~LastUsable

\* the requests so far are D, D-1, D-2, .. one calendar day apart, each made
\* after an unusable response to the one before
WalkInOrder ==
    /\ Len(responses) = Len(requests)
    /\ requests # <<>> => requests[1] = target_date
    /\ \A j \in 1..Len(requests) - 1 :
           /\ ~Usable(responses[j])
           /\ Ordinal(strptime(requests[j])) - Ordinal(strptime(requests[j + 1])) = 1

\* C10 as claimed: the walk is exhausted after 7 requests, the requests are one
\* calendar day apart in the order D, D-1, .., each after an unusable one, and
\* on exhaustion the lookup and actualDate are empty.
C10_SevenRequests ==
    /\ WalkInOrder
    /\ Len(requests) <= 7
    /\ Exhausted => /\ Len(requests) = 7
                    /\ foreign_map = <<>>
                    /\ actual_date = <<>>

\* the steps the function can still take: every step takes at least one away
StepsLeft == IF flow_pc = "returned" THEN 0 ELSE 10 - Len(requests)

\* C10 amended: the function always terminates (every step brings it nearer to
\* its return), the walk is exhausted after 8 requests (the requested day D and
\* the 7 days before it, D-1 .. D-7), the requests are one calendar day apart
\* in the order D, D-1, .., each after an unusable one, and on exhaustion the
\* lookup and actualDate are empty.
C10_EightRequests ==
    /\ [](/\ WalkInOrder
          /\ Len(requests) <= 8
          /\ flow_pc \in {"start", "walk", "returned"}
          /\ Exhausted => /\ Len(requests) = 8
                          /\ requests[8] = YYYYMMDD(DayBefore(7))
                          /\ foreign_map = <<>>
                          /\ actual_date = <<>>)
    /\ [][StepsLeft' >= 0 /\ StepsLeft' < StepsLeft]_vars

\* C10 witness: the walk gave up after the request for D-7
C10_Witness ==
    /\ Exhausted
    /\ Len(requests) = 8
    /\ foreign_map = <<>>
    /\ actual_date = <<>>

----------------------------------------------------------------------------
(* Claim about the lot conversion of fetch_twse_foreign_data (under SpecFlow) *)

\* the quotient by 1000 rounded toward zero
TruncatedLots(shares) ==
    IF shares >= 0 THEN shares \div 1000 ELSE 0 - ((0 - shares) \div 1000)

\* the rows of the response the lookup was built from
UsedRows == IF LastUsable THEN responses[Len(responses)].data ELSE <<>>

\* the row that decides the entry of its code: no later row has the code
DecidingRow(n) ==
    \A l \in n + 1..Len(UsedRows) : Strip(UsedRows[l][1]) # Strip(UsedRows[n][1])

\* C11 as claimed: for every feed row the stored buy, sell and net lots are the
\* row's share counts divided by 1000 with truncation toward zero (-1500 shares
\* are -1 lot, -500 shares are 0 lots), and an unparsable share field gives 0.
C11_LotsTruncated ==
    \A n \in 1..Len(UsedRows) :
        DecidingRow(n) =>
            LET row == UsedRows[n]
                e   == DictGet(foreign_map, Strip(row[1]))
            IN  /\ e.buy = TruncatedLots(parse_shares(row[3]))
                /\ e.sell = TruncatedLots(parse_shares(row[4]))
                /\ e.net = TruncatedLots(parse_shares(row[5]))
                /\ \A f \in 3..5 :
                       ~isdigit(Remove(Strip(row[f]), {",", "-"})) =>
                           parse_shares(row[f]) = 0

----------------------------------------------------------------------------
(* Claims about main's control flow and the report (under Spec) *)

\* the calls of a run that is not cut short: the 5-day and the 10-day
\* extraction, the merge, the flow lookup, the classification, the report
MainOrder ==
    <<"fetch_fubon_ranking", "fetch_fubon_ranking", "merge",
      "fetch_twse_foreign_data", "merge_and_classify", "generate_html">>

IsPrefix(a, b) == Len(a) <= Len(b) /\ a = SubSeq(b, 1, Len(a))

\* nothing of the steps after the 5-day extraction has happened
NoLaterStep ==
    /\ calls = <<"fetch_fubon_ranking">>
    /\ stocks_10d = <<>> /\ date_10d = <<>>
    /\ five_day_map = <<>> /\ ten_day_map = <<>> /\ stocks = <<>>
    /\ foreign_map = <<>> /\ date_foreign = <<>>
    /\ buying = <<>> /\ selling = <<>> /\ nodata = <<>>
    /\ html = None

\* C12: when the 5-day extraction returns no record main stops there: the
\* 10-day extraction, the flow lookup, merge_and_classify and the report are
\* never performed.  When it returns a record the calls are made in the order
\* 5-day extraction, 10-day extraction, merge, flow lookup, classification,
\* report, the run does not abort, and an empty 10-day extraction leaves the
\* merge able to run.
C12_AbortEarly ==
    /\ [](/\ IsPrefix(calls, MainOrder)
          /\ (calls # <<>> /\ stocks_5d = <<>>) => (pc = "aborted" /\ NoLaterStep)
          /\ (calls # <<>> /\ stocks_5d # <<>>) => pc # "aborted"
          /\ pc = "done" <=> calls = MainOrder
          /\ (pc = "merge" /\ stocks_10d = <<>>) => ENABLED MergeHorizons)
    /\ [][pc # "aborted"]_vars

\* C12 witness: the run stopped after an empty 5-day extraction
C12_Witness ==
    /\ pc = "aborted"
    /\ stocks_5d = <<>>
    /\ calls = <<"fetch_fubon_ranking">>
    /\ html = None

\* the report has been written
Reported == pc = "done" /\ html # None

\* the three reference dates agree
DatesAgree == date_5d = date_10d /\ date_10d = date_foreign

\* the three groups are rendered as classified
GroupsRendered ==
    /\ html[1].buying = merge_and_classify(stocks, foreign_map).buying
    /\ html[1].selling = merge_and_classify(stocks, foreign_map).selling
    /\ html[1].nodata = merge_and_classify(stocks, foreign_map).nodata
    /\ html[1].total = Len(stocks)

\* C13 as claimed: whenever the 5-day date, the 10-day date and the flow date
\* do not all agree the report carries the date advisory, the three groups
\* are rendered all the same, and when the three dates agree and are not
\* empty there is no advisory.
C13_AdvisoryOnAnyMismatch ==
    Reported =>
        /\ ~DatesAgree => html[1].date_warning
        /\ (DatesAgree /\ date_5d # <<>>) => ~html[1].date_warning
        /\ GroupsRendered

----------------------------------------------------------------------------
(* Claim about the resynchronization of the cell scan (under SpecExtract) *)

\* a row of the page starts at cell p: a rank marker, then a name cell with a
\* resolvable code
RowStart(p) ==
    /\ p + 1 <= Len(all_tds)
    /\ IsRankMarker(all_tds[p].text)
    /\ StockCode(all_tds[p + 1]) # <<>>

\* the first cell after the row that starts at p
RowEnd(p) ==
    LET later == {q \in p + 1..Len(all_tds) : RowStart(q)}
    IN  IF later = {} THEN Len(all_tds) + 1
        ELSE CHOOSE q \in later : \A r \in later : q <= r

\* the non-empty values of the row that starts at p
RowTexts(p) ==
    SelectSeq([k \in 1..RowEnd(p) - (p + 2) |-> all_tds[p + 1 + k].text],
              LAMBDA t : t # <<>>)

WellFormedRow(p) == RowStart(p) /\ Len(RowTexts(p)) = MinValues

MalformedRow(p) == RowStart(p) /\ Len(RowTexts(p)) < MinValues

\* C14 as claimed: a malformed row (rank marker, name cell, fewer than 6
\* non-empty values before the next row's rank marker) does not cost a later
\* row: every well-formed row after it is emitted as its own record with its
\* own rank and values; and the cursor after an emitted record is at the first
\* cell the record did not consume.
C14_LaterRowsSurvive ==
    /\ ext_pc = "returned" =>
           \A q \in 1..Len(all_tds) : \A p \in q + 1..Len(all_tds) :
               (MalformedRow(q) /\ WellFormedRow(p)) =>
                   \E n \in 1..Len(ext_stocks) :
                       /\ spans[n].marker = p
                       /\ ext_stocks[n] = MakeStock(int(all_tds[p].text),
                                                    StockCode(all_tds[p + 1]),
                                                    StockName(all_tds[p + 1].text),
                                                    RowTexts(p))
    /\ Len(spans) = Len(ext_stocks)
    /\ \A n \in 1..Len(spans) :
           /\ spans[n].end = CollectValues(all_tds, spans[n].marker + 2, <<>>).j
           /\ i >= spans[n].end
           /\ n < Len(spans) => spans[n + 1].marker >= spans[n].end

----------------------------------------------------------------------------
(* Claim about the frame of merge_and_classify (under Spec) *)

\* the decliner fields other than name
KeptFields ==
    {"rank", "code", "close", "change", "change_pct", "volume",
     "five_day_change", "five_day_pct", "ten_day_change", "ten_day_pct"}

\* r is the output record of the merged record s: the kept fields agree, r has
\* the fields of s and the six flow fields, and its name is the flow entry's
\* when found is true, else that of s
OutputOf(r, s, found) ==
    /\ \A f \in KeptFields : r[f] = s[f]
    /\ DOMAIN r = DOMAIN s \cup FlowFields
    /\ r.name = IF found THEN DictGet(foreign_map, s.code).name ELSE s.name

\* C15: merge_and_classify changes neither the merged list nor the flow
\* lookup; every output record keeps rank, code, close, change, change_pct,
\* volume and the horizon fields of its merged record; the name of a record
\* found in the lookup is the flow entry's name, and a noFlowData record keeps
\* the extractor's name.
C15_ClassifyFrame ==
    /\ [](Classified =>
             /\ \A p \in 1..Len(buying) :
                    OutputOf(buying[p], stocks[Pos(buying[p])], TRUE)
             /\ \A p \in 1..Len(selling) :
                    OutputOf(selling[p], stocks[Pos(selling[p])], TRUE)
             /\ \A p \in 1..Len(nodata) :
                    OutputOf(nodata[p], stocks[Pos(nodata[p])], FALSE))
    /\ [][pc = "classify" =>
             /\ stocks' = stocks
             /\ foreign_map' = foreign_map
             /\ stocks_5d' = stocks_5d /\ stocks_10d' = stocks_10d]_vars

\* C15 witness: a found record took the flow entry's name, which is not the
\* extractor's, next to a noFlowData record
C15_Witness ==
    /\ Classified
    /\ nodata # <<>>
    /\ \E p \in 1..Len(buying) :
           /\ buying[p].name # stocks[Pos(buying[p])].name
           /\ buying[p].name = DictGet(foreign_map, buying[p].code).name

====
